---- MODULE Spec2Model ----
(***************************************************************************)
(* NetworkDiscoveryParser (network_discovery_parser.py, version 2.0.1).    *)
(*                                                                         *)
(* Three specifications over one set of variables:                        *)
(*   Spec       a run of main() as the script is started from the shell;   *)
(*   SpecMainAll the same run with every statement of main() as an action, *)
(*              including the ones no run reaches;                         *)
(*   SpecCalls  count_valid_ips(host_list) followed by                     *)
(*              extract_host_data(host_list), called directly on a host    *)
(*              list as the test-suite does.                               *)
(*                                                                         *)
(* JSON values are tagged records [t |-> type, v |-> payload]; a Python    *)
(* str is a sequence of one-character strings; a dict is a function whose  *)
(* DOMAIN is its key set.                                                  *)
(***************************************************************************)
EXTENDS Integers, Sequences, FiniteSets, TLC

VARIABLES
    entry,          \* "main": started as a script; "calls": functions called directly
    pc,             \* the statement about to run
    input,          \* command line, file system and file content of this run
    level,          \* root logger level
    handlers,       \* handlers attached to the root logger
    trace,          \* prints and emitted log records, in order
    exc,            \* the exception being handled or propagated ("" if none)
    status,         \* process exit status (-1 while running or when no exit happened)
    interrupted,    \* a KeyboardInterrupt was raised in this run
    host_list,      \* the host sequence handed to the two passes
    index,          \* loop position of the running pass (0-based count of entries done)
    ip_count,       \* count_valid_ips' local counter
    valid_ip_count  \* main's / the caller's copy of the returned count (-1 before)

vars == <<entry, pc, input, level, handlers, trace, exc, status, interrupted,
          host_list, index, ip_count, valid_ip_count>>

-----------------------------------------------------------------------------
(* Bounds *)

MaxHosts == 2

-----------------------------------------------------------------------------
(* Python values *)

Null == [t |-> "null", v |-> 0]
JBool(b) == [t |-> "bool", v |-> b]
JInt(n) == [t |-> "int", v |-> n]
JStr(s) == [t |-> "str", v |-> s]
JList(s) == [t |-> "list", v |-> s]
JDict(f) == [t |-> "dict", v |-> f]
EmptyDict == JDict(<<>>)

Digits == <<"0", "1", "2", "3", "4", "5", "6", "7", "8", "9">>

IsDigit(c) == \E d \in 1..10 : Digits[d] = c

DigitValue(c) == (CHOOSE d \in 1..10 : Digits[d] = c) - 1

\* str(n) of a non-negative int
RECURSIVE Dec(_)
Dec(n) == IF n < 10 THEN <<Digits[n + 1]>> ELSE Dec(n \div 10) \o <<Digits[(n % 10) + 1]>>

\* int(s, 10) of a string of ASCII digits
RECURSIVE IntOf(_)
IntOf(s) == IF s = <<>> THEN 0 ELSE 10 * IntOf(SubSeq(s, 1, Len(s) - 1)) + DigitValue(s[Len(s)])

\* str(value), the conversion an f-string and ipaddress apply
PyStr(x) ==
    CASE x.t = "str" -> x.v
      [] x.t = "null" -> <<"N", "o", "n", "e">>
      [] x.t = "bool" -> IF x.v THEN <<"T", "r", "u", "e">> ELSE <<"F", "a", "l", "s", "e">>
      [] x.t = "int" -> IF x.v < 0 THEN <<"-">> \o Dec(0 - x.v) ELSE Dec(x.v)
      [] x.t = "list" -> IF x.v = <<>> THEN <<"[", "]">> ELSE <<"[", ".", ".", ".", "]">>
      [] OTHER -> IF DOMAIN x.v = {} THEN <<"{", "}">> ELSE <<"{", ".", ".", ".", "}">>

\* bool(value)
Truthy(x) ==
    CASE x.t = "null" -> FALSE
      [] x.t = "bool" -> x.v
      [] x.t = "int" -> x.v # 0
      [] x.t = "str" -> x.v # <<>>
      [] x.t = "list" -> x.v # <<>>
      [] OTHER -> DOMAIN x.v # {}

\* hasattr(value, "get"): only a dict has .get
HasGet(x) == x.t = "dict"

\* dict.get(key, default)
Get(d, key, default) == IF key \in DOMAIN d.v THEN d.v[key] ELSE default

-----------------------------------------------------------------------------
(* ipaddress.IPv4Address, as called at network_discovery_parser.py:130 *)

\* str.split(sep): the pieces between every occurrence of sep
RECURSIVE Split(_, _)
Split(s, sep) ==
    IF \A i \in 1..Len(s) : s[i] # sep
    THEN <<s>>
    ELSE LET i == CHOOSE k \in 1..Len(s) : s[k] = sep /\ \A j \in 1..(k - 1) : s[j] # sep
         IN  <<SubSeq(s, 1, i - 1)>> \o Split(SubSeq(s, i + 1, Len(s)), sep)

\* _parse_octet succeeds (raises no ValueError)
parse_octet_ok(octet_str) ==
    /\ octet_str # <<>>
    /\ \A i \in 1..Len(octet_str) : IsDigit(octet_str[i])
    /\ Len(octet_str) <= 3
    /\ ~(octet_str # <<"0">> /\ octet_str[1] = "0")
    /\ IntOf(octet_str) <= 255

\* _ip_int_from_string succeeds
ip_int_from_string_ok(ip_str) ==
    /\ ip_str # <<>>
    /\ LET octets == Split(ip_str, ".")
       IN  /\ Len(octets) = 4
           /\ \A k \in 1..4 : parse_octet_ok(octets[k])

\* A variant that accepts what the looser historical parsers accept: any
\* number of digits' worth of leading zeros and surrounding blanks.
IPv4AddressLoose(address) ==
    \/ address.t \in {"int", "bool"}
    \/ /\ address.t = "str"
       /\ LET octets == Split(SelectSeq(address.v, LAMBDA c : c # " "), ".")
          IN  /\ Len(octets) = 4
              /\ \A k \in 1..4 :
                    /\ octets[k] # <<>>
                    /\ \A i \in 1..Len(octets[k]) : IsDigit(octets[k][i])
                    /\ IntOf(octets[k]) <= 255

\* IPv4Address(address) constructs (TRUE) or raises ValueError (FALSE).
\* An int (bool is an int) is taken as the packed address; the upper limit
\* 2^32 - 1 of _check_int_address lies beyond the integers of the model.
IPv4Address(address) ==
    IF address.t = "int" THEN address.v >= 0
    ELSE IF address.t = "bool" THEN TRUE
    ELSE LET addr_str == PyStr(address)
         IN  /\ \A i \in 1..Len(addr_str) : addr_str[i] # "/"
             /\ ip_int_from_string_ok(addr_str)

-----------------------------------------------------------------------------
(* Inputs: the host entries the two passes are run on *)

S_192_168_1_100 == <<"1", "9", "2", ".", "1", "6", "8", ".", "1", ".", "1", "0", "0">>
S_invalid_ip == <<"i", "n", "v", "a", "l", "i", "d", "_", "i", "p">>
S_256_1_1_1 == <<"2", "5", "6", ".", "1", ".", "1", ".", "1">>
S_1_2_3 == <<"1", ".", "2", ".", "3">>
S_1_2_3_4_5 == <<"1", ".", "2", ".", "3", ".", "4", ".", "5">>
S_sp_1_2_3_4 == <<" ", "1", ".", "2", ".", "3", ".", "4">>
S_1_2_3_4_sp == <<"1", ".", "2", ".", "3", ".", "4", " ">>
S_1_2_3_4 == <<"1", ".", "2", ".", "3", ".", "4">>
S_0_0_0_255 == <<"0", ".", "0", ".", "0", ".", "2", "5", "5">>
S_01_2_3_4 == <<"0", "1", ".", "2", ".", "3", ".", "4">>
S_1__3_4 == <<"1", ".", ".", "3", ".", "4">>
S_1_2_3_4_slash_8 == <<"1", ".", "2", ".", "3", ".", "4", "/", "8">>
S_empty == <<>>

\* Candidate ip_v4_address strings: the test's two, the malformed forms the
\* specification lists, and near misses of a dotted quad.
IpStrings ==
    {S_192_168_1_100, S_invalid_ip, S_256_1_1_1, S_1_2_3,
     S_1_2_3_4_5, S_sp_1_2_3_4, S_1_2_3_4_sp, S_1_2_3_4,
     S_0_0_0_255, S_01_2_3_4, S_1__3_4, S_1_2_3_4_slash_8,
     S_empty}

\* Candidate ip_v4_address values of any JSON scalar type
IpValues ==
    {JStr(s) : s \in IpStrings} \cup {Null, JInt(0), JInt(1), JInt(-1), JBool(TRUE), JBool(FALSE)}

NA == JStr(<<"N", "/", "A">>)

\* The seven fields extract_host_data reads, in the order it prints them
Fields ==
    <<"host_id", "mac_address", "ip_v4_address", "ip_v4_subnet",
      "ip_v6_address", "mdns_name", "user_name">>

\* The label each field is printed under
Labels ==
    <<"  Host ID", "  MAC Address", "  IPv4 Address", "  IPv4 Subnet",
      "  IPv6 Address", "  MDNS Name", "  User Name">>

OtherFields == {Fields[k] : k \in {1, 2, 4, 5, 6, 7}}

\* A distinct sample value for each of the six other fields
SampleValue(f) ==
    CASE f = "host_id" -> JStr(<<"h", "1">>)
      [] f = "mac_address" -> JStr(<<"a", "a", ":", "b", "b">>)
      [] f = "ip_v4_subnet" -> JStr(<<"2", "5", "5", ".", "0", ".", "0", ".", "0">>)
      [] f = "ip_v6_address" -> JStr(<<":", ":", "1">>)
      [] f = "mdns_name" -> JStr(<<"m", ".", "l", "o", "c", "a", "l">>)
      [] f = "user_name" -> Null
      [] OTHER -> NA

\* Which of the six other fields an entry carries: none, all, or just one
FieldSets == {{}, OtherFields} \cup {{f} : f \in OtherFields}

\* {"host": {...}} with the given fields
HostEntry(hasIp, ip, others) ==
    LET keys == others \cup (IF hasIp THEN {"ip_v4_address"} ELSE {})
        host_data == JDict([k \in keys |-> IF k = "ip_v4_address" THEN ip ELSE SampleValue(k)])
    IN  JDict([k \in {"host"} |-> host_data])

\* Entries that are well-formed host mappings
HostEntries ==
    {HostEntry(TRUE, ip, {}) : ip \in IpValues}
        \cup {HostEntry(FALSE, Null, fs) : fs \in FieldSets}
        \cup {HostEntry(TRUE, JStr(S_1_2_3_4), OtherFields)}
        \cup {EmptyDict}

\* Entries JSON allows that are not host mappings
BadEntries ==
    {JStr(<<"x">>), JDict([k \in {"host"} |-> JList(<<>>)]), JDict([k \in {"host"} |-> Null])}

RECURSIVE SeqsUpTo(_, _)
SeqsUpTo(S, n) ==
    IF n = 0 THEN {<<>>}
    ELSE LET shorter == SeqsUpTo(S, n - 1)
         IN  shorter \cup {Append(s, x) : s \in {t \in shorter : Len(t) = n - 1}, x \in S}

HostLists == SeqsUpTo(HostEntries \cup BadEntries, MaxHosts)

-----------------------------------------------------------------------------
(* Standard output and the logging module *)

LevelNo(lv) ==
    CASE lv = "DEBUG" -> 10
      [] lv = "INFO" -> 20
      [] lv = "WARNING" -> 30
      [] OTHER -> 40

\* print(...): one line on standard output
Stdout(label, text) == [k |-> "print", level |-> "", label |-> label, text |-> text]

BlankLine == Stdout("", <<>>)

\* logging.<lv>(...): the record reaches the handlers when the root logger's
\* level lets it through, and is dropped otherwise
Emit(lv, label, text) ==
    IF LevelNo(lv) >= LevelNo(level)
    THEN <<[k |-> "log", level |-> lv, label |-> label, text |-> text]>>
    ELSE <<>>

\* The module-level logging functions call basicConfig() when the root logger
\* has no handler yet, which attaches a stderr handler and leaves the level.
AfterLogCall(h) == IF h = {} THEN {"stderr"} ELSE h

-----------------------------------------------------------------------------
(* count_valid_ips and extract_host_data *)

\* Where control goes when `e` is raised at the current statement: inside
\* main's try block to the first matching except clause, anywhere else
\* (a direct call, or inside one of main's handlers) out of the function.
Handler(e) ==
    CASE e = "JSONDecodeError" -> "except_JSONDecodeError_print"
      [] e = "IOError" -> "except_IOError_print"
      [] e = "KeyboardInterrupt" -> "except_KeyboardInterrupt_log"
      [] e = "SystemExit" -> "done"
      [] OTHER -> "except_Exception_print"

RaiseTo(e) == IF entry = "main" THEN Handler(e) ELSE "raised"

\* host.get(...) / host_data.get(...) of one loop iteration raise AttributeError
NoGet(host) == ~HasGet(host) \/ ~HasGet(Get(host, "host", EmptyDict))

\* The records one iteration of count_valid_ips logs, lines 128-134
CountLog(ip_v4_address) ==
    IF ~Truthy(ip_v4_address) THEN <<>>
    ELSE IF IPv4Address(ip_v4_address)
         THEN Emit("DEBUG", "Valid IPv4 address", PyStr(ip_v4_address))
         ELSE Emit("WARNING", "Invalid IPv4 address", PyStr(ip_v4_address))

\* The increment of one iteration of count_valid_ips, lines 128-131
CountInc(ip_v4_address) ==
    IF Truthy(ip_v4_address) /\ IPv4Address(ip_v4_address) THEN 1 ELSE 0

\* One iteration of the loop of count_valid_ips, lines 125-134
count_valid_ips_step ==
    /\ pc = "count_valid_ips"
    /\ index < Len(host_list)
    /\ LET host == host_list[index + 1]
       IN  IF NoGet(host)
           THEN /\ exc' = "AttributeError"
                /\ pc' = RaiseTo("AttributeError")
                /\ UNCHANGED <<index, ip_count, trace, handlers>>
           ELSE LET host_data == Get(host, "host", EmptyDict)
                    ip_v4_address == Get(host_data, "ip_v4_address", Null)
                IN  /\ ip_count' = ip_count + CountInc(ip_v4_address)
                    /\ trace' = trace \o CountLog(ip_v4_address)
                    /\ handlers' = IF Truthy(ip_v4_address) THEN AfterLogCall(handlers) ELSE handlers
                    /\ index' = index + 1
                    /\ UNCHANGED <<pc, exc>>
    /\ UNCHANGED <<entry, input, level, status, interrupted, host_list, valid_ip_count>>

\* return ip_count, line 135, and the caller's assignment, line 194
count_valid_ips_return ==
    /\ pc = "count_valid_ips"
    /\ index = Len(host_list)
    /\ valid_ip_count' = ip_count
    /\ pc' = "extract_host_data"
    /\ index' = 0
    /\ UNCHANGED <<entry, input, level, handlers, trace, exc, status, interrupted,
                   host_list, ip_count>>

\* The default of the script's first variant: None, shown as "None"
FieldDefaultNone == Null

\* The default extract_host_data shows for a missing field, lines 148-154
FieldDefault == NA

FieldShown(host_data, f) == PyStr(Get(host_data, f, FieldDefault))

\* The number a block is headed with, line 146: enumerate(host_list, 1)
BlockNumber(i) == i + 1

\* The eight lines print() writes for one host, lines 156-163; the "\n"
\* that opens the first makes a blank line before the header
HostBlock(i, host_data) ==
    <<BlankLine, Stdout("Host", Dec(BlockNumber(i)))>>
        \o [k \in 1..7 |-> Stdout(Labels[k], FieldShown(host_data, Fields[k]))]

\* One iteration of the loop of extract_host_data, lines 146-164
extract_host_data_step ==
    /\ pc = "extract_host_data"
    /\ index < Len(host_list)
    /\ LET host == host_list[index + 1]
       IN  IF NoGet(host)
           THEN /\ exc' = "AttributeError"
                /\ pc' = RaiseTo("AttributeError")
                /\ UNCHANGED <<index, trace, handlers>>
           ELSE LET host_data == Get(host, "host", EmptyDict)
                IN  /\ trace' = trace \o HostBlock(index, host_data)
                            \o Emit("DEBUG", "Processed host", Dec(BlockNumber(index)))
                    /\ handlers' = AfterLogCall(handlers)
                    /\ index' = index + 1
                    /\ UNCHANGED <<pc, exc>>
    /\ UNCHANGED <<entry, input, level, status, interrupted, host_list, ip_count,
                   valid_ip_count>>

\* extract_host_data returns None after the last entry
extract_host_data_return ==
    /\ pc = "extract_host_data"
    /\ index = Len(host_list)
    /\ pc' = IF entry = "main" THEN "print_total" ELSE "returned"
    /\ UNCHANGED <<entry, input, level, handlers, trace, exc, status, interrupted,
                   host_list, index, ip_count, valid_ip_count>>

\* What a run records of its command line and files when none is involved
NoInput ==
    [argv |-> "none", is_file |-> FALSE, suffix |-> "", verbose |-> FALSE,
     logfile_ok |-> FALSE, readable |-> FALSE, utf8 |-> FALSE, sensitive |-> FALSE,
     json |-> Null]

\* count_valid_ips(host_list) then extract_host_data(host_list) on a host
\* list the caller built, with logging left as Python starts it
InitCalls ==
    /\ entry = "calls"
    /\ pc = "count_valid_ips"
    /\ input = NoInput
    /\ level = "WARNING"
    /\ handlers = {}
    /\ trace = <<>>
    /\ exc = ""
    /\ status = -1
    /\ interrupted = FALSE
    /\ host_list \in HostLists
    /\ index = 0
    /\ ip_count = 0
    /\ valid_ip_count = -1

NextCalls ==
    \/ count_valid_ips_step
    \/ count_valid_ips_return
    \/ extract_host_data_step
    \/ extract_host_data_return

SpecCalls == InitCalls /\ [][NextCalls]_vars

-----------------------------------------------------------------------------
(* main(): the inputs of a run *)

Suffix_json == <<".", "j", "s", "o", "n">>
Suffix_JSON == <<".", "J", "S", "O", "N">>
Suffix_txt == <<".", "t", "x", "t">>

\* str.lower() on the letters the suffixes use
LowerChar(c) ==
    CASE c = "J" -> "j"
      [] c = "S" -> "s"
      [] c = "O" -> "o"
      [] c = "N" -> "n"
      [] OTHER -> c

Lower(s) == [i \in 1..Len(s) |-> LowerChar(s[i])]

\* File content json.load cannot decode
Malformed == [t |-> "malformed", v |-> 0]

\* {"Detail": {"host_list": x}}
Document(x) == JDict([k \in {"Detail"} |-> JDict([h \in {"host_list"} |-> x])])

\* Host lists of the documents a run of main is given
DocumentHostLists ==
    {<<>>,
     <<HostEntry(TRUE, JStr(S_192_168_1_100), {}), HostEntry(TRUE, JStr(S_invalid_ip), {})>>,
     <<HostEntry(TRUE, JInt(1), {})>>,
     <<JStr(<<"x">>)>>}

\* What the input file decodes to
Documents ==
    {Malformed, JInt(5), JList(<<>>), EmptyDict,
     JDict([k \in {"Detail"} |-> EmptyDict]),
     JDict([k \in {"Detail"} |-> Null]),
     Document(JInt(5))}
        \cup {Document(JList(hl)) : hl \in DocumentHostLists}

\* The command line, the file system and the file content of one run
Inputs ==
    [argv : {"ok", "version", "usage_error"},
     is_file : BOOLEAN,
     suffix : {Suffix_json, Suffix_JSON, Suffix_txt},
     verbose : BOOLEAN,
     logfile_ok : BOOLEAN,
     readable : BOOLEAN,
     utf8 : BOOLEAN,
     sensitive : BOOLEAN,
     json : Documents]

-----------------------------------------------------------------------------
(* main(): statements *)

passVars == <<host_list, index, ip_count, valid_ip_count>>

\* The statements of main's try block, lines 169-197
TryBlock ==
    {"parse_arguments", "setup_logging", "log_starting", "check_sensitive_data",
     "abort_log", "abort_print", "abort_exit", "load", "log_read", "check_keys",
     "keys_error_log", "keys_error_print", "keys_error_exit", "check_list",
     "list_error_log", "list_error_print", "list_error_exit", "count_valid_ips",
     "extract_host_data", "print_total", "log_completed"}

\* The statements of main's except clauses, lines 199-213
ExceptClauses ==
    {"except_JSONDecodeError_print", "except_JSONDecodeError_log",
     "except_JSONDecodeError_exit", "except_IOError_print", "except_IOError_log",
     "except_IOError_exit", "except_KeyboardInterrupt_log",
     "except_KeyboardInterrupt_exit", "except_Exception_print",
     "except_Exception_log", "except_Exception_exit"}

\* logging.<lv>(label) at statement `at`
LogStmt(at, lv, label, next) ==
    /\ pc = at
    /\ trace' = trace \o Emit(lv, label, <<>>)
    /\ handlers' = AfterLogCall(handlers)
    /\ pc' = next
    /\ UNCHANGED <<entry, input, level, exc, status, interrupted, passVars>>

\* print(label) at statement `at`
PrintStmt(at, label, next) ==
    /\ pc = at
    /\ trace' = trace \o <<Stdout(label, <<>>)>>
    /\ pc' = next
    /\ UNCHANGED <<entry, input, level, handlers, exc, status, interrupted, passVars>>

\* sys.exit(code) at statement `at`: SystemExit is no Exception, so no except
\* clause of main takes it and the process ends with that status
ExitStmt(at, code) ==
    /\ pc = at
    /\ exc' = "SystemExit"
    /\ status' = code
    /\ pc' = "done"
    /\ UNCHANGED <<entry, input, level, handlers, trace, interrupted, passVars>>

\* Statement `at` raises e
RaiseStmt(e) ==
    /\ exc' = e
    /\ pc' = RaiseTo(e)

\* parse_arguments() without the checks of lines 86-89
parse_arguments_unchecked ==
    /\ pc = "parse_arguments"
    /\ pc' = "setup_logging"
    /\ UNCHANGED <<entry, input, level, handlers, trace, exc, status, interrupted, passVars>>

\* parse_arguments(), lines 84-91: argparse ends the process itself for
\* --version (status 0) and for a usage error (status 2, as parser.error does)
parse_arguments ==
    /\ pc = "parse_arguments"
    /\ IF input.argv = "version"
       THEN /\ trace' = trace \o <<Stdout("version", <<>>)>>
            /\ status' = 0 /\ exc' = "SystemExit" /\ pc' = "done"
       ELSE IF input.argv = "usage_error"
       THEN /\ trace' = trace \o <<[k |-> "stderr", level |-> "", label |-> "usage", text |-> <<>>]>>
            /\ status' = 2 /\ exc' = "SystemExit" /\ pc' = "done"
       ELSE IF ~input.is_file
       THEN /\ trace' = trace \o <<[k |-> "stderr", level |-> "",
                                    label |-> "Input file does not exist", text |-> <<>>]>>
            /\ status' = 2 /\ exc' = "SystemExit" /\ pc' = "done"
       ELSE IF Lower(input.suffix) # Suffix_json
       THEN /\ trace' = trace \o <<[k |-> "stderr", level |-> "",
                                    label |-> "Input file must be a JSON file", text |-> <<>>]>>
            /\ status' = 2 /\ exc' = "SystemExit" /\ pc' = "done"
       ELSE /\ pc' = "setup_logging"
            /\ UNCHANGED <<trace, status, exc>>
    /\ UNCHANGED <<entry, input, level, handlers, interrupted, passVars>>

\* setup_logging(), lines 38-49: level and console handler first, then the
\* log file is opened, which raises IOError when it cannot be
setup_logging ==
    /\ pc = "setup_logging"
    /\ level' = IF input.verbose THEN "DEBUG" ELSE "INFO"
    /\ IF input.logfile_ok
       THEN /\ handlers' = handlers \cup {"console", "file"}
            /\ pc' = "log_starting"
            /\ UNCHANGED exc
       ELSE /\ handlers' = handlers \cup {"console"}
            /\ RaiseStmt("IOError")
    /\ UNCHANGED <<entry, input, trace, status, interrupted, passVars>>

\* line 172
log_starting ==
    LogStmt("log_starting", "INFO", "Starting parsing of JSON file", "check_sensitive_data")

\* The names bound at module level, lines 13-20 and the defs
ModuleNames ==
    {"argparse", "json", "logging", "RotatingFileHandler", "sys", "Path", "ipaddress",
     "List", "Dict", "Any", "Optional", "Config", "setup_logging", "parse_arguments",
     "check_sensitive_data", "count_valid_ips", "extract_host_data", "main"}

\* A scan that lets the run go on when the file cannot be read
check_sensitive_data_unread_ok(inp) ==
    IF ~inp.readable THEN "True"
    ELSE IF ~inp.utf8 THEN "UnicodeDecodeError"
    ELSE IF "re" \notin ModuleNames THEN "NameError"
    ELSE IF inp.sensitive THEN "False" ELSE "True"

\* check_sensitive_data(input_path), lines 102-113: what the call comes to.
\* "IOError" is caught inside and makes it return False; the other
\* exceptions leave the function.
check_sensitive_data(inp) ==
    IF ~inp.readable THEN "False after IOError"
    ELSE IF ~inp.utf8 THEN "UnicodeDecodeError"
    ELSE IF "re" \notin ModuleNames THEN "NameError"
    ELSE IF inp.sensitive THEN "False" ELSE "True"

\* line 174 with the call's own log records, lines 108 and 111
call_check_sensitive_data ==
    /\ pc = "check_sensitive_data"
    /\ LET r == check_sensitive_data(input)
       IN  CASE r = "False after IOError" ->
                  /\ trace' = trace \o Emit("ERROR", "Failed to read for sensitive data check", <<>>)
                  /\ handlers' = AfterLogCall(handlers)
                  /\ pc' = "abort_log"
                  /\ UNCHANGED exc
             [] r = "False" ->
                  /\ trace' = trace \o Emit("WARNING", "Potential sensitive data found", <<>>)
                  /\ handlers' = AfterLogCall(handlers)
                  /\ pc' = "abort_log"
                  /\ UNCHANGED exc
             [] r = "True" ->
                  /\ pc' = "load"
                  /\ UNCHANGED <<trace, handlers, exc>>
             [] OTHER ->
                  /\ RaiseStmt(r)
                  /\ UNCHANGED <<trace, handlers>>
    /\ UNCHANGED <<entry, input, level, status, interrupted, passVars>>

\* lines 175-177
abort_log ==
    LogStmt("abort_log", "ERROR", "Aborted due to potential sensitive data", "abort_print")

abort_print ==
    PrintStmt("abort_print", "Error: Potential sensitive data detected in input file",
              "abort_exit")

abort_exit == ExitStmt("abort_exit", 1)

\* lines 203-206
except_IOError_print ==
    PrintStmt("except_IOError_print", "Error: File operation failed", "except_IOError_log")

except_IOError_log ==
    LogStmt("except_IOError_log", "ERROR", "File operation failed", "except_IOError_exit")

except_IOError_exit == ExitStmt("except_IOError_exit", 1)

\* lines 207-209
except_KeyboardInterrupt_log ==
    LogStmt("except_KeyboardInterrupt_log", "INFO", "Cancelled by user",
            "except_KeyboardInterrupt_exit")

except_KeyboardInterrupt_exit == ExitStmt("except_KeyboardInterrupt_exit", 0)

\* lines 210-213
except_Exception_print ==
    PrintStmt("except_Exception_print", "Unexpected error", "except_Exception_log")

except_Exception_log ==
    LogStmt("except_Exception_log", "ERROR", "Unexpected error", "except_Exception_exit")

except_Exception_exit == ExitStmt("except_Exception_exit", 1)

\* Where a KeyboardInterrupt raised at statement `at` of main goes: from the
\* try block to the except clause of line 207; from inside an except clause
\* out of main, since the clauses of one try do not guard each other, and
\* the interpreter then ends on the signal (status 130) with a traceback.
InterruptTarget(at) == IF at \in TryBlock THEN "except_KeyboardInterrupt_log" ELSE "done"

\* The user's interrupt arrives while some statement of main runs
KeyboardInterrupt ==
    /\ entry = "main"
    /\ pc \in TryBlock \cup ExceptClauses
    /\ interrupted' = TRUE
    /\ exc' = "KeyboardInterrupt"
    /\ pc' = InterruptTarget(pc)
    /\ status' = IF InterruptTarget(pc) = "done" THEN 130 ELSE status
    /\ UNCHANGED <<entry, input, level, handlers, trace, passVars>>

-----------------------------------------------------------------------------
(* main(): the statements after the pre-scan, lines 179-202 *)

\* lines 179-180: open and json.load
load ==
    /\ pc = "load"
    /\ IF ~input.readable THEN RaiseStmt("IOError") /\ UNCHANGED host_list
       ELSE IF ~input.utf8 THEN RaiseStmt("UnicodeDecodeError") /\ UNCHANGED host_list
       ELSE IF input.json = Malformed THEN RaiseStmt("JSONDecodeError") /\ UNCHANGED host_list
       ELSE pc' = "log_read" /\ UNCHANGED <<exc, host_list>>
    /\ UNCHANGED <<entry, input, level, handlers, trace, status, interrupted, index,
                   ip_count, valid_ip_count>>

\* line 181
log_read == LogStmt("log_read", "INFO", "Successfully read JSON file", "check_keys")

Key_Detail == <<"D", "e", "t", "a", "i", "l">>
Key_host_list == <<"h", "o", "s", "t", "_", "l", "i", "s", "t">>

KeyChars(key) == IF key = "Detail" THEN Key_Detail ELSE Key_host_list

\* `key in x` raises TypeError: x is no container
InRaises(x) == x.t \in {"null", "bool", "int"}

\* `key in x` for a dict (a key), a list (an element) or a str (a substring)
In(key, x) ==
    CASE x.t = "dict" -> key \in DOMAIN x.v
      [] x.t = "list" -> \E i \in 1..Len(x.v) : x.v[i].t = "str" /\ x.v[i].v = KeyChars(key)
      [] x.t = "str" -> \E i \in 1..Len(x.v) :
                            /\ i + Len(KeyChars(key)) - 1 <= Len(x.v)
                            /\ SubSeq(x.v, i, i + Len(KeyChars(key)) - 1) = KeyChars(key)
      [] OTHER -> FALSE

\* x[key] with a str key raises TypeError unless x is a dict
SubscriptRaises(x) == x.t # "dict"

\* line 183: "missing", "present" or the exception its evaluation raises
check_keys_result(json_data) ==
    IF InRaises(json_data) THEN "TypeError"
    ELSE IF ~In("Detail", json_data) THEN "missing"
    ELSE IF SubscriptRaises(json_data) THEN "TypeError"
    ELSE IF InRaises(json_data.v["Detail"]) THEN "TypeError"
    ELSE IF ~In("host_list", json_data.v["Detail"]) THEN "missing"
    ELSE "present"

\* lines 183 and 188
check_keys ==
    /\ pc = "check_keys"
    /\ LET r == check_keys_result(input.json)
       IN  CASE r = "missing" -> pc' = "keys_error_log" /\ UNCHANGED exc
             [] r = "present" ->
                  IF SubscriptRaises(input.json.v["Detail"])
                  THEN RaiseStmt("TypeError")
                  ELSE pc' = "check_list" /\ UNCHANGED exc
             [] OTHER -> RaiseStmt(r)
    /\ UNCHANGED <<entry, input, level, handlers, trace, status, interrupted, passVars>>

\* lines 184-186
keys_error_log ==
    LogStmt("keys_error_log", "ERROR", "Invalid JSON structure: missing 'Detail' or 'host_list'",
            "keys_error_print")

keys_error_print ==
    PrintStmt("keys_error_print", "Error: JSON file must contain 'Detail' and 'host_list' keys",
              "keys_error_exit")

keys_error_exit == ExitStmt("keys_error_exit", 1)

\* line 189, and the call of line 194 when host_list is a list
check_list ==
    /\ pc = "check_list"
    /\ LET value == input.json.v["Detail"].v["host_list"]
       IN  IF value.t = "list"
           THEN /\ host_list' = value.v
                /\ index' = 0
                /\ ip_count' = 0
                /\ pc' = "count_valid_ips"
           ELSE /\ pc' = "list_error_log"
                /\ UNCHANGED <<host_list, index, ip_count>>
    /\ UNCHANGED <<entry, input, level, handlers, trace, exc, status, interrupted,
                   valid_ip_count>>

\* lines 190-192
list_error_log ==
    LogStmt("list_error_log", "ERROR", "Invalid JSON structure: 'host_list' is not a list",
            "list_error_print")

list_error_print ==
    PrintStmt("list_error_print", "Error: 'host_list' must be a list", "list_error_exit")

list_error_exit == ExitStmt("list_error_exit", 1)

\* line 196
print_total ==
    /\ pc = "print_total"
    /\ trace' = trace \o <<BlankLine, Stdout("Total Valid IPv4 Address(es)", Dec(valid_ip_count))>>
    /\ pc' = "log_completed"
    /\ UNCHANGED <<entry, input, level, handlers, exc, status, interrupted, passVars>>

\* line 197; main returns and the interpreter ends with status 0
log_completed ==
    /\ pc = "log_completed"
    /\ trace' = trace \o Emit("INFO", "Parsing completed", Dec(valid_ip_count))
    /\ handlers' = AfterLogCall(handlers)
    /\ status' = 0
    /\ pc' = "done"
    /\ UNCHANGED <<entry, input, level, exc, interrupted, passVars>>

\* lines 199-202
except_JSONDecodeError_print ==
    PrintStmt("except_JSONDecodeError_print", "Error: Invalid JSON", "except_JSONDecodeError_log")

except_JSONDecodeError_log ==
    LogStmt("except_JSONDecodeError_log", "ERROR", "Invalid JSON", "except_JSONDecodeError_exit")

except_JSONDecodeError_exit == ExitStmt("except_JSONDecodeError_exit", 1)

-----------------------------------------------------------------------------
(* main(): specifications *)

\* The script is started: nothing has run, logging is as Python starts it
Init ==
    /\ entry = "main"
    /\ pc = "parse_arguments"
    /\ input \in Inputs
    /\ level = "WARNING"
    /\ handlers = {}
    /\ trace = <<>>
    /\ exc = ""
    /\ status = -1
    /\ interrupted = FALSE
    /\ host_list = <<>>
    /\ index = 0
    /\ ip_count = 0
    /\ valid_ip_count = -1

\* The statements a run of main reaches
Next ==
    \/ parse_arguments
    \/ setup_logging
    \/ log_starting
    \/ call_check_sensitive_data
    \/ abort_log
    \/ abort_print
    \/ abort_exit
    \/ except_IOError_print
    \/ except_IOError_log
    \/ except_IOError_exit
    \/ except_KeyboardInterrupt_log
    \/ except_KeyboardInterrupt_exit
    \/ except_Exception_print
    \/ except_Exception_log
    \/ except_Exception_exit
    \/ KeyboardInterrupt

Spec == Init /\ [][Next]_vars

\* The statements no run of main reaches: check_sensitive_data never
\* returns True (NeverPastPreScan holds under SpecMainAll)
NextAfterPreScan ==
    \/ load
    \/ log_read
    \/ check_keys
    \/ keys_error_log
    \/ keys_error_print
    \/ keys_error_exit
    \/ check_list
    \/ list_error_log
    \/ list_error_print
    \/ list_error_exit
    \/ count_valid_ips_step
    \/ count_valid_ips_return
    \/ extract_host_data_step
    \/ extract_host_data_return
    \/ print_total
    \/ log_completed
    \/ except_JSONDecodeError_print
    \/ except_JSONDecodeError_log
    \/ except_JSONDecodeError_exit

SpecMainAll == Init /\ [][Next \/ NextAfterPreScan]_vars

\* Every statement of main
AfterPreScan ==
    {"load", "log_read", "check_keys", "keys_error_log", "keys_error_print",
     "keys_error_exit", "check_list", "list_error_log", "list_error_print",
     "list_error_exit", "count_valid_ips", "extract_host_data", "print_total",
     "log_completed", "except_JSONDecodeError_print", "except_JSONDecodeError_log",
     "except_JSONDecodeError_exit"}

\* No run of main gets past the pre-scan of line 174
NeverPastPreScan == entry = "main" => pc \notin AfterPreScan

-----------------------------------------------------------------------------
(* What the claims speak of *)

\* The lines written to standard output so far
PrintedLines == SelectSeq(trace, LAMBDA e : e.k = "print")

\* The canonical decimal numerals of 0..255
OctetNumerals == {Dec(n) : n \in 0..255}

\* s is a dotted quad: exactly three dots, and the four pieces they delimit
\* are numerals of 0..255, with nothing before, between or after
DottedQuad(s) ==
    \E i, j, k \in 1..Len(s) :
        /\ i < j /\ j < k
        /\ {p \in 1..Len(s) : s[p] = "."} = {i, j, k}
        /\ SubSeq(s, 1, i - 1) \in OctetNumerals
        /\ SubSeq(s, i + 1, j - 1) \in OctetNumerals
        /\ SubSeq(s, j + 1, k - 1) \in OctetNumerals
        /\ SubSeq(s, k + 1, Len(s)) \in OctetNumerals

\* A host entry as the data model describes it: a mapping whose "host", when
\* present, is a mapping
IsHostMapping(host) ==
    /\ host.t = "dict"
    /\ "host" \in DOMAIN host.v => host.v["host"].t = "dict"

HasField(host, f) == "host" \in DOMAIN host.v /\ f \in DOMAIN host.v["host"].v

FieldOf(host, f) == host.v["host"].v[f]

\* ip_v4_address is absent, null or a string
IpAbsentNullOrString(host) ==
    HasField(host, "ip_v4_address") => FieldOf(host, "ip_v4_address").t \in {"null", "str"}

\* The entry carries a string that is a dotted quad
HasDottedQuad(host) ==
    /\ HasField(host, "ip_v4_address")
    /\ FieldOf(host, "ip_v4_address").t = "str"
    /\ DottedQuad(FieldOf(host, "ip_v4_address").v)

\* The forms the specification lists as rejected
ListedMalformed ==
    {S_256_1_1_1, S_1_2_3, S_1_2_3_4_5, S_sp_1_2_3_4, S_invalid_ip, S_empty}

HasListedMalformed(host) ==
    /\ HasField(host, "ip_v4_address")
    /\ FieldOf(host, "ip_v4_address").t = "str"
    /\ FieldOf(host, "ip_v4_address").v \in ListedMalformed

CountReturned == entry = "calls" /\ valid_ip_count # -1

\* C2: count_valid_ips returns the number of entries whose ip_v4_address is
\* a string of four dot-separated decimal octets in 0..255 and nothing else,
\* for host lists of mappings whose ip_v4_address is absent, null or a
\* string; absent, null, empty and the listed malformed strings add nothing.
C2_CountIsNumberOfDottedQuads ==
    (CountReturned /\ \A i \in 1..Len(host_list) :
                          IsHostMapping(host_list[i]) /\ IpAbsentNullOrString(host_list[i]))
    => /\ valid_ip_count = Cardinality({i \in 1..Len(host_list) : HasDottedQuad(host_list[i])})
       /\ valid_ip_count <= Cardinality({i \in 1..Len(host_list) :
                                            /\ HasField(host_list[i], "ip_v4_address")
                                            /\ FieldOf(host_list[i], "ip_v4_address").t = "str"
                                            /\ ~HasListedMalformed(host_list[i])})

\* The test's list: "192.168.1.100" counted, "invalid_ip" not
C2_Witness ==
    /\ CountReturned
    /\ host_list = <<HostEntry(TRUE, JStr(S_192_168_1_100), {}),
                     HostEntry(TRUE, JStr(S_invalid_ip), {})>>
    /\ valid_ip_count = 1

\* What a block shows for field number k of an entry
ExpectedText(host, k) ==
    IF HasField(host, Fields[k]) THEN PyStr(FieldOf(host, Fields[k])) ELSE <<"N", "/", "A">>

\* Block number i of the output is the block of entry i
BlockAsClaimed(out, i) ==
    LET base == 9 * (i - 1)
    IN  /\ out[base + 1] = BlankLine
        /\ out[base + 2] = Stdout("Host", Dec(i))
        /\ \A k \in 1..7 :
              /\ out[base + 2 + k].label = Labels[k]
              /\ out[base + 2 + k].text = ExpectedText(host_list[i], k)

ExtractRunning == entry = "calls" /\ pc \in {"extract_host_data", "returned"}

\* C8: extract_host_data prints one block per entry, in sequence order and
\* numbered from 1, each after a blank line and holding the seven fields in
\* order with the entry's value or "N/A"; the host sequence is not changed.
C8_BlocksAsClaimed ==
    /\ [](ExtractRunning /\ (\A i \in 1..Len(host_list) : IsHostMapping(host_list[i]))
            => /\ Len(PrintedLines) = 9 * index
               /\ pc = "returned" => index = Len(host_list)
               /\ \A i \in 1..index : BlockAsClaimed(PrintedLines, i))
    /\ [][host_list' = host_list]_vars

\* Two blocks printed, the first for an entry with every field, the second
\* for an entry without a "host" mapping
C8_Witness ==
    /\ entry = "calls" /\ pc = "returned"
    /\ host_list = <<HostEntry(TRUE, JStr(S_1_2_3_4), OtherFields), EmptyDict>>
    /\ Len(PrintedLines) = 18
    /\ PrintedLines[11] = Stdout("Host", <<"2">>)

\* The number of printed blocks whose IPv4 Address line shows a dotted quad
BlocksShowingDottedQuad ==
    Cardinality({i \in 1..Len(PrintedLines) :
                    /\ PrintedLines[i].label = "  IPv4 Address"
                    /\ DottedQuad(PrintedLines[i].text)})

\* C9: the count the counting pass returns equals the number of blocks the
\* presentation pass prints with a dotted-quad IPv4 Address line, whatever
\* JSON value ip_v4_address holds.
C9_CountMatchesPrintedBlocks ==
    (entry = "calls" /\ pc = "returned") => valid_ip_count = BlocksShowingDottedQuad

-----------------------------------------------------------------------------
(* Claims about main() *)

Done == entry = "main" /\ pc = "done"

\* argparse accepts the command line and the path names a .json file
ArgsAccepted(inp) ==
    inp.argv = "ok" /\ inp.is_file /\ Lower(inp.suffix) = Suffix_json

HasPrint(label) == \E i \in 1..Len(trace) : trace[i].k = "print" /\ trace[i].label = label

HasLog(label) == \E i \in 1..Len(trace) : trace[i].k = "log" /\ trace[i].label = label

TotalLabel == "Total Valid IPv4 Address(es)"

KeysErrorMessage == "Error: JSON file must contain 'Detail' and 'host_list' keys"

ListErrorMessage == "Error: 'host_list' must be a list"

AbortMessage == "Error: Potential sensitive data detected in input file"

\* The document is {"Detail": {"host_list": [host mappings]}}
WellFormedDocument(doc) ==
    \E hl \in DocumentHostLists :
        /\ doc = Document(JList(hl))
        /\ \A i \in 1..Len(hl) : IsHostMapping(hl[i])

\* The document is a mapping without Detail, or Detail is a mapping without
\* host_list, or host_list is not a list
StructureLacking(doc) ==
    /\ doc.t = "dict"
    /\ \/ "Detail" \notin DOMAIN doc.v
       \/ /\ doc.v["Detail"].t = "dict"
          /\ \/ "host_list" \notin DOMAIN doc.v["Detail"].v
             \/ doc.v["Detail"].v["host_list"].t # "list"

\* The file can be scanned and loaded and nothing in it matches a pattern
CleanReadableFile(inp) ==
    ArgsAccepted(inp) /\ inp.logfile_ok /\ inp.readable /\ inp.utf8 /\ ~inp.sensitive

\* C1: a run on an existing, readable .json file without sensitive patterns
\* that holds a well-formed document prints the total line exactly once,
\* after the host blocks, and ends with exit status 0.
C1_SuccessPathExitsZero ==
    (Done /\ ~interrupted /\ CleanReadableFile(input) /\ WellFormedDocument(input.json))
    => /\ status = 0
       /\ Cardinality({i \in 1..Len(PrintedLines) : PrintedLines[i].label = TotalLabel}) = 1
       /\ PrintedLines[Len(PrintedLines)].label = TotalLabel

\* C3: a run on a document without Detail, without Detail.host_list or with
\* a host_list that is no list ends with the structure-error report and a
\* non-zero status, without counting, presenting or printing a total.
C3_StructureErrorReported ==
    (Done /\ ~interrupted /\ CleanReadableFile(input) /\ StructureLacking(input.json))
    => /\ status \notin {0, -1}
       /\ HasPrint(KeysErrorMessage) \/ HasPrint(ListErrorMessage)
       /\ valid_ip_count = -1
       /\ ~HasPrint(TotalLabel)

\* C4: a run in which a KeyboardInterrupt was raised, at whatever statement
\* of main, ends with exit status 0.
C4_InterruptExitsZero == (Done /\ interrupted) => status = 0

\* The log record that reports the error a message is printed for
ErrorLogOf(message) ==
    CASE message = AbortMessage -> "Aborted due to potential sensitive data"
      [] message = KeysErrorMessage -> "Invalid JSON structure: missing 'Detail' or 'host_list'"
      [] message = ListErrorMessage -> "Invalid JSON structure: 'host_list' is not a list"
      [] message = "Error: Invalid JSON" -> "Invalid JSON"
      [] message = "Error: File operation failed" -> "File operation failed"
      [] OTHER -> "Unexpected error"

ErrorMessages ==
    {AbortMessage, KeysErrorMessage, ListErrorMessage, "Error: Invalid JSON",
     "Error: File operation failed", "Unexpected error"}

\* C5: on every error path the error's log record is emitted before the
\* user-facing message is printed.
C5_LogBeforePrint ==
    entry = "main" =>
        \A i \in 1..Len(trace) :
            (trace[i].k = "print" /\ trace[i].label \in ErrorMessages)
            => \E j \in 1..(i - 1) :
                  /\ trace[j].k = "log"
                  /\ trace[j].level = "ERROR"
                  /\ trace[j].label = ErrorLogOf(trace[i].label)

\* C6: whatever is raised inside main once the arguments are accepted, the
\* run ends by exiting with status 0 or 1; nothing but the exit itself
\* leaves main.
C6_NoUnhandledFault ==
    (Done /\ ArgsAccepted(input)) => (status \in {0, 1} /\ exc \in {"", "SystemExit"})

\* C7: when the file holds a sensitive pattern or cannot be scanned, the run
\* ends with exit status 1 and a printed message and never gets to the JSON
\* load or anything after it; a run is past the pre-scan only if the scan
\* read the file and found nothing.
C7_PreScanGate ==
    entry = "main" =>
        /\ pc \in AfterPreScan => (input.readable /\ input.utf8 /\ ~input.sensitive)
        /\ (pc = "done" /\ ~interrupted /\ ArgsAccepted(input)
               /\ (input.sensitive \/ ~input.readable))
           => /\ status = 1
              /\ \E i \in 1..Len(trace) : trace[i].k = "print" /\ trace[i].label \in ErrorMessages
              /\ valid_ip_count = -1
              /\ ~HasPrint(TotalLabel)

\* The file cannot be read: the scan reports it and the run is aborted
C7_Witness ==
    /\ Done /\ ~interrupted /\ ArgsAccepted(input) /\ input.logfile_ok
    /\ ~input.readable
    /\ HasLog("Failed to read for sensitive data check")
    /\ HasPrint(AbortMessage)
    /\ status = 1

\* The path is no existing file, or its suffix lowercased is not ".json"
BadInputPath(inp) == ~inp.is_file \/ Lower(inp.suffix) # Suffix_json

\* C10: a run whose input path is no existing file or has no .json suffix
\* ends in parse_arguments with a non-zero status; logging is never
\* configured, no log file is opened, and neither the pre-scan nor the load
\* is reached.
C10_ArgumentErrorsFirst ==
    (entry = "main" /\ BadInputPath(input))
    => /\ level = "WARNING"
       /\ handlers \cap {"console", "file"} = {}
       /\ pc \in {"parse_arguments", "done", "except_KeyboardInterrupt_log",
                  "except_KeyboardInterrupt_exit"}
       /\ (pc = "done" /\ ~interrupted /\ input.argv # "version")
          => /\ status = 2
             /\ Len(trace) = 1
             /\ trace[1].k = "stderr"

\* An existing file named *.txt: argparse's error, status 2, nothing else
C10_Witness ==
    /\ Done /\ ~interrupted
    /\ input.argv = "ok" /\ input.is_file /\ input.suffix = Suffix_txt
    /\ status = 2
    /\ trace[1].label = "Input file must be a JSON file"
    /\ handlers = {}

====
